---- MODULE Spec2Model ----
(***************************************************************************)
(* The Adapter of src/src/adapter.rs: the five-slot socket table, the two  *)
(* single-producer/single-consumer queues it consumes, and the socket      *)
(* operations open / close / connect_tcp / write / read.                   *)
(*                                                                         *)
(* The Adapter runs on one thread; the Ingress runs concurrently and only  *)
(* enqueues.  Every dequeue of the Adapter is one step of the model, so    *)
(* the Ingress can interleave between any two dequeues; what the Adapter   *)
(* does between two dequeues touches no shared state and is one step.      *)
(*                                                                         *)
(* initialize, the handshake that precedes the Adapter, is modelled read   *)
(* by read of the byte source (SpecBoot); the Adapter's specifications     *)
(* start where a successful handshake ends.                                *)
(***************************************************************************)
EXTENDS Naturals, Integers, Sequences, FiniteSets, TLC

VARIABLES
    sockets,        \* Adapter.sockets: slot -> [state, available]
    notifQ,         \* the Notification Queue (Ingress enqueues, Adapter dequeues)
    respQ,          \* the Response Queue (Ingress enqueues, Adapter dequeues)
    device,         \* "orderly": the device replies only while the Adapter waits;
                    \* "eager": it sends every reply of an exchange regardless
    owed,           \* replies an eager device still has to deliver
    pc,             \* where the Adapter thread is
    op,             \* the public call in progress (or the last one that returned)
    ret,            \* what that call returned
    cmd,            \* the command this call handed to send, if any
    got,            \* the replies this call has dequeued from the Response Queue
    dataSent,       \* bytes of the caller's buffer this call wrote to the transport
    buffer,         \* the caller's buffer of a read
    overflowChecks, \* build profile: TRUE panics on usize overflow, FALSE wraps
    boot            \* initialize: its position, the pins, its locals and those
                    \* of wait_for_ok, and the commands written to the transport

vars == <<sockets, notifQ, respQ, device, owed, pc, op, ret, cmd, got, dataSent,
          buffer, overflowChecks, boot>>

----------------------------------------------------------------------------
(* Program constants *)

NumSockets == 5
RespQueueCap == 2
NotifQueueCap == 16

(* Bounds of the model *)

MaxLink == 1        \* callers and in-range notifications address slots 0..MaxLink
MaxLen == 2         \* buffer lengths and lengths carried by responses
MaxPending == 2     \* notifications the Ingress lets wait in the queue
MaxOwed == 3        \* replies the device may still owe
UsizeBits == 4      \* width of usize in the model

UsizeMod == 2 ^ UsizeBits

Slots == 0 .. (NumSockets - 1)
Links == 0 .. MaxLink
BufLens == 1 .. MaxLen

Min(a, b) == IF a < b THEN a ELSE b

----------------------------------------------------------------------------
(* Values *)

SocketStates == {"Closed", "Open", "Connected", "HalfClosed"}

Socket(s, a) == [state |-> s, available |-> a]

\* A table whose first slot starts Open.
initialize_sockets_FirstOpen ==
    [i \in Slots |-> IF i = 0 THEN Socket("Open", 0) ELSE Socket("Closed", 0)]

initialize_sockets == [i \in Slots |-> Socket("Closed", 0)]

Resp(t, l, n) == [type |-> t, link |-> l, len |-> n]

\* Responses the Ingress routes to the Notification Queue.  link NumSockets is
\* a link id outside the table.
Notifications ==
    {Resp("DataAvailable", l, n) : l \in Links, n \in 1 .. MaxLen}
    \cup {Resp("DataAvailable", NumSockets, 1)}
    \cup {Resp("Closed", l, 0) : l \in Links \cup {NumSockets}}
    \cup {Resp("Connect", 0, 0)}

\* Responses the Ingress routes to the Response Queue.
Replies ==
    {Resp("Ok", 0, 0), Resp("ReadyForData", 0, 0), Resp("Connect", 0, 0)}
    \cup {Resp("SendOk", 0, n) : n \in 1 .. MaxLen}
    \cup {Resp("DataReceived", 0, n) : n \in 1 .. MaxLen}

\* The bytes a DataReceived response carries.
Inbound == [i \in 1 .. MaxLen |-> 10 + i]

Command(t, l, n) == [type |-> t, link |-> l, len |-> n]
NoCmd == Command("none", 0, 0)

Call(name, l, n) == [name |-> name, link |-> l, len |-> n]
NoCall == Call("none", 0, 0)

Ret(k, v) == [kind |-> k, val |-> v]
NoRet == Ret("none", 0)

----------------------------------------------------------------------------
(* Pure parts of the code *)

\* usize arithmetic: an overflow panics in a build with overflow checks and
\* wraps otherwise.
Overflows(v) == v < 0 \/ v >= UsizeMod
Wrap(v) == (v + UsizeMod) % UsizeMod

\* A close table that takes an open slot straight to Closed.
CloseTransition_NoHalfClose(s) ==
    CASE s = "HalfClosed" -> "Closed"
      [] s \in {"Open", "Connected"} -> "Closed"
      [] s = "Closed" -> "Closed"

\* The match on the slot's state for a Closed notification.
CloseTransition(s) ==
    CASE s = "HalfClosed" -> "Closed"
      [] s \in {"Open", "Connected"} -> "HalfClosed"
      [] s = "Closed" -> "Closed"

Folded(socks) == [panic |-> FALSE, sockets |-> socks]
Panicked(socks) == [panic |-> TRUE, sockets |-> socks]

\* One iteration of the loop of process_notifications, for the dequeued r.
ProcessNotification(socks, r, checks) ==
    CASE r.type = "DataAvailable" ->
            IF r.link \notin Slots THEN Panicked(socks)
            ELSE LET sum == socks[r.link].available + r.len IN
                 IF Overflows(sum) /\ checks THEN Panicked(socks)
                 ELSE Folded([socks EXCEPT ![r.link].available = Wrap(sum)])
      [] r.type = "Connect" -> Folded(socks)
      [] r.type = "Closed" ->
            IF r.link \notin Slots THEN Panicked(socks)
            ELSE Folded([socks EXCEPT
                           ![r.link].state = CloseTransition(socks[r.link].state)])
      [] OTHER -> Folded(socks)

\* A connect that takes an Ok for the confirmation.
ExpectConnect_OrOk(r) == r.type \in {"Connect", "Ok"}

\* A write that streams the buffer after any second reply.
ExpectReadyForData_Any(r) == TRUE

\* The patterns the replies are matched against.
ExpectOk(r) == r.type = "Ok"
ExpectReadyForData(r) == r.type = "ReadyForData"
ExpectSendOk(r) == r.type = "SendOk"
ExpectConnect(r) == r.type = "Connect"
ExpectDataReceived(r) == r.type = "DataReceived"

IsClosed(socks, i) == socks[i].state = "Closed"

\* A scan that takes the last Closed slot instead of the first.
FirstClosed_Last(socks) ==
    IF \E i \in Slots : socks[i].state = "Closed"
    THEN CHOOSE i \in Slots :
            /\ socks[i].state = "Closed"
            /\ \A j \in Slots : socks[j].state = "Closed" => j <= i
    ELSE NumSockets

\* open's scan: the first slot that is Closed (NumSockets when there is none).
FirstClosed(socks) ==
    IF \E i \in Slots : IsClosed(socks, i)
    THEN CHOOSE i \in Slots :
            /\ IsClosed(socks, i)
            /\ \A j \in Slots : IsClosed(socks, j) => i <= j
    ELSE NumSockets

\* Preconditions that give up on a HalfClosed slot even with bytes left.
ReadPrecondition_HalfClosedFails(s) ==
    IF s.state \in {"Closed", "HalfClosed"} THEN "SocketNotOpen"
    ELSE IF s.available = 0 THEN "WouldBlock"
    ELSE "go"

\* Preconditions that let a Closed slot with a byte count through.
ReadPrecondition_ClosedDrains(s) ==
    IF s.state \in {"Closed", "HalfClosed"} /\ s.available = 0
    THEN "SocketNotOpen"
    ELSE IF s.available = 0 THEN "WouldBlock"
    ELSE "go"

\* Preconditions that test the byte count before the HalfClosed state.
ReadPrecondition_BlockFirst(s) ==
    IF s.state = "Closed" THEN "SocketNotOpen"
    ELSE IF s.available = 0 THEN "WouldBlock"
    ELSE "go"

\* read's preconditions, checked in the order of the code; "go" when it sends.
ReadPrecondition(s) ==
    IF s.state = "Closed" THEN "SocketNotOpen"
    ELSE IF s.state = "HalfClosed" /\ s.available = 0 THEN "SocketNotOpen"
    ELSE IF s.available = 0 THEN "WouldBlock"
    ELSE "go"

\* The copy loop of read: buffer[i] = inbound[i] for i < len.
CopyInto(buf, len) ==
    [i \in 1 .. Len(buf) |-> IF i <= len THEN Inbound[i] ELSE buf[i]]

\* Replies the device sends for a command it received whole: the three-step
\* exchange of a Send, one reply for every other command.
RepliesTo(c) == IF c.type = "Send" THEN 3 ELSE 1

----------------------------------------------------------------------------
(* The initialization handshake *)

\* The sizes of the handshake, scaled down: the scratch buffer of initialize
\* ([u8; 1024]), the buffer of wait_for_ok ([u8; 64]) and the threshold the
\* failure counter is compared with (10_000).
ScratchLen == 9
OkBufLen == 5
FailureBudget == 2

READY == <<114, 101, 97, 100, 121, 13, 10>>     \* b"ready\r\n"
OK == <<79, 75, 13, 10>>                        \* b"OK\r\n"

Commands == <<"ATE0", "AT+CIPMUX=1", "AT+CIPRECVMODE=1">>

EndsWith(data, lit) ==
    /\ Len(data) >= Len(lit)
    /\ SubSeq(data, Len(data) - Len(lit) + 1, Len(data)) = lit

\* The length of the longest proper prefix of lit the data ends with.
Matched(lit, data) ==
    LET fits == {k \in 0 .. Min(Len(lit) - 1, Len(data)) :
                    SubSeq(data, Len(data) - k + 1, Len(data)) = SubSeq(lit, 1, k)}
    IN CHOOSE k \in fits : \A j \in fits : j <= k

\* The bytes the source may deliver next while lit is awaited: the byte that
\* goes on with lit, the byte that starts it again, or a byte of no literal.
RxBytes(lit, data) == {lit[Matched(lit, data) + 1], lit[1], 120}

RxOk(c) == [kind |-> "Ok", c |-> c]
RxWouldBlock == [kind |-> "WouldBlock", c |-> 0]
RxErr == [kind |-> "Err", c |-> 0]
RxNone == [kind |-> "none", c |-> 0]

\* A banner test that leaves out the line ending.
ReadyMatched_NoLineEnd(buf, pos) ==
    /\ pos >= 5
    /\ SubSeq(buf, pos - 5 + 1, pos) = SubSeq(READY, 1, 5)

\* pos >= READY.len() && buffer[pos - READY.len()..pos] == READY
ReadyMatched(buf, pos) ==
    /\ pos >= Len(READY)
    /\ SubSeq(buf, pos - Len(READY) + 1, pos) = READY

\* buf[0..pos].ends_with(b"OK\r\n")
OkMatched(buf, pos) == EndsWith(SubSeq(buf, 1, pos), OK)

Padded(lit, n) == [i \in 1 .. n |-> IF i <= Len(lit) THEN lit[i] ELSE 0]

\* initialize is entered.
BootStart ==
    [step |-> "enable", enable_pin |-> FALSE, reset_pin |-> FALSE,
     buffer |-> Padded(<<>>, ScratchLen), pos |-> 0, counter |-> 0,
     result |-> RxNone, buf |-> Padded(<<>>, OkBufLen), buf_pos |-> 0,
     tx |-> <<>>]

\* initialize has returned the pair after the shortest exchange: the banner
\* and the three acknowledgements with no other byte and no failed read.
Booted ==
    [step |-> "built", enable_pin |-> TRUE, reset_pin |-> TRUE,
     buffer |-> Padded(READY, ScratchLen), pos |-> Len(READY), counter |-> 0,
     result |-> RxOk(READY[Len(READY)]), buf |-> Padded(OK, OkBufLen),
     buf_pos |-> Len(OK), tx |-> Commands]

AdapterVars == <<sockets, notifQ, respQ, device, owed, pc, op, ret, cmd, got,
                 dataSent, buffer, overflowChecks>>

\* enable_pin.set_high(), which may fail.
EnablePin ==
    /\ boot.step = "enable"
    /\ \/ boot' = [boot EXCEPT !.enable_pin = TRUE, !.step = "reset"]
       \/ boot' = [boot EXCEPT !.step = "failed"]
    /\ UNCHANGED AdapterVars

\* reset_pin.set_high(), which may fail.
ResetPin ==
    /\ boot.step = "reset"
    /\ \/ boot' = [boot EXCEPT !.reset_pin = TRUE, !.step = "banner"]
       \/ boot' = [boot EXCEPT !.step = "failed"]
    /\ UNCHANGED AdapterVars

\* The loop of initialize, rx.read() gives Ok(c): the byte is stored at the
\* cursor, past the end of the buffer this is an index out of bounds.
BannerByte(c) ==
    /\ boot.step = "banner"
    /\ IF boot.pos >= ScratchLen
       THEN boot' = [boot EXCEPT !.result = RxOk(c), !.step = "panicked"]
       ELSE LET stored == [boot.buffer EXCEPT ![boot.pos + 1] = c]
                pos == boot.pos + 1
            IN boot' = [boot EXCEPT
                          !.result = RxOk(c),
                          !.buffer = stored,
                          !.pos = pos,
                          !.step = IF ReadyMatched(stored, pos)
                                   THEN "echo" ELSE "banner"]
    /\ UNCHANGED AdapterVars

\* The loop of initialize, rx.read() gives Err(WouldBlock): continue.
BannerWouldBlock ==
    /\ boot.step = "banner"
    /\ boot' = [boot EXCEPT !.result = RxWouldBlock]
    /\ UNCHANGED AdapterVars

\* A loop that counts the failure before it tests the counter.
BannerError_CountFirst ==
    /\ boot.step = "banner"
    /\ boot' = [boot EXCEPT
                  !.result = RxErr,
                  !.counter = @ + 1,
                  !.step = IF boot.counter + 1 > FailureBudget
                           THEN "failed" ELSE "banner"]
    /\ UNCHANGED AdapterVars

\* The loop of initialize, rx.read() gives another error: break when the
\* counter is above the threshold, count the failure otherwise.
BannerError ==
    /\ boot.step = "banner"
    /\ IF boot.counter > FailureBudget
       THEN boot' = [boot EXCEPT !.result = RxErr, !.step = "failed"]
       ELSE boot' = [boot EXCEPT !.result = RxErr, !.counter = @ + 1]
    /\ UNCHANGED AdapterVars

\* write_command of one of the three configuration commands, which may fail
\* at any byte; then wait_for_ok starts with an empty buf.
WriteCommand(at, command, waiting) ==
    /\ boot.step = at
    /\ \/ boot' = [boot EXCEPT !.tx = Append(@, command),
                               !.buf = Padded(<<>>, OkBufLen),
                               !.buf_pos = 0,
                               !.step = waiting]
       \/ boot' = [boot EXCEPT !.tx = Append(@, command), !.step = "failed"]
    /\ UNCHANGED AdapterVars

disable_echo == WriteCommand("echo", Commands[1], "echo_wait")
enable_mux == WriteCommand("mux", Commands[2], "mux_wait")
set_recv_mode == WriteCommand("recv", Commands[3], "recv_wait")

WaitSteps == {"echo_wait", "mux_wait", "recv_wait"}

\* What initialize does once wait_for_ok has returned Ok.
AfterOk(step) ==
    CASE step = "echo_wait" -> "mux"
      [] step = "mux_wait" -> "recv"
      [] step = "recv_wait" -> "build"

\* wait_for_ok, rx.read() gives a byte: it is stored at the cursor, past the
\* end of buf this is an index out of bounds.
WaitForOkByte(c) ==
    /\ boot.step \in WaitSteps
    /\ IF boot.buf_pos >= OkBufLen
       THEN boot' = [boot EXCEPT !.step = "panicked"]
       ELSE LET stored == [boot.buf EXCEPT ![boot.buf_pos + 1] = c]
                pos == boot.buf_pos + 1
            IN boot' = [boot EXCEPT
                          !.buf = stored,
                          !.buf_pos = pos,
                          !.step = IF OkMatched(stored, pos)
                                   THEN AfterOk(boot.step) ELSE boot.step]
    /\ UNCHANGED AdapterVars

\* wait_for_ok, rx.read() gives Err(WouldBlock): nb::block! reads again.
WaitForOkWouldBlock ==
    /\ boot.step \in WaitSteps
    /\ UNCHANGED boot
    /\ UNCHANGED AdapterVars

\* wait_for_ok, rx.read() gives another error: the command's function maps it
\* to UnableToInitialize.
WaitForOkError ==
    /\ boot.step \in WaitSteps
    /\ boot' = [boot EXCEPT !.step = "failed"]
    /\ UNCHANGED AdapterVars

\* build_adapter_and_ingress: the pair is built and returned.
Build ==
    /\ boot.step = "build"
    /\ boot' = [boot EXCEPT !.step = "built"]
    /\ sockets' = initialize_sockets
    /\ pc' = "idle"
    /\ UNCHANGED <<notifQ, respQ, device, owed, op, ret, cmd, got, dataSent,
                   buffer, overflowChecks>>

\* The handshake, from the call of initialize to its return.
InitBoot ==
    /\ boot = BootStart
    /\ sockets = <<>>
    /\ notifQ = <<>>
    /\ respQ = <<>>
    /\ device = "orderly"
    /\ owed = 0
    /\ pc = "initialize"
    /\ op = NoCall
    /\ ret = NoRet
    /\ cmd = NoCmd
    /\ got = <<>>
    /\ dataSent = 0
    /\ buffer = <<>>
    /\ overflowChecks \in BOOLEAN

NextBoot ==
    \/ EnablePin
    \/ ResetPin
    \/ \E c \in RxBytes(READY, SubSeq(boot.buffer, 1, boot.pos)) : BannerByte(c)
    \/ BannerWouldBlock
    \/ BannerError
    \/ disable_echo
    \/ enable_mux
    \/ set_recv_mode
    \/ \E c \in RxBytes(OK, SubSeq(boot.buf, 1, boot.buf_pos)) : WaitForOkByte(c)
    \/ WaitForOkWouldBlock
    \/ WaitForOkError
    \/ Build

SpecBoot == InitBoot /\ [][NextBoot]_vars

----------------------------------------------------------------------------
(* The Adapter *)

Init ==
    /\ boot = Booted
    /\ sockets = initialize_sockets
    /\ notifQ = <<>>
    /\ respQ = <<>>
    /\ device = "orderly"
    /\ owed = 0
    /\ pc = "idle"
    /\ op = NoCall
    /\ ret = NoRet
    /\ cmd = NoCmd
    /\ got = <<>>
    /\ dataSent = 0
    /\ buffer = <<>>
    /\ overflowChecks \in BOOLEAN

\* A public call begins.
Begin(c) ==
    /\ pc = "idle"
    /\ op' = c
    /\ UNCHANGED <<got, dataSent>>

\* The call returns r to its caller.
Return(r) ==
    /\ pc' = "returned"
    /\ ret' = r

\* The caller has taken the result; the record of the call is forgotten.
\* Nothing but that record changes, so the Ingress is not interleaved here.
Resume ==
    /\ pc = "returned"
    /\ pc' = "idle"
    /\ op' = NoCall
    /\ ret' = NoRet
    /\ cmd' = NoCmd
    /\ got' = <<>>
    /\ dataSent' = 0
    /\ buffer' = <<>>
    /\ UNCHANGED <<sockets, notifQ, respQ, owed, device, overflowChecks, boot>>

Panic ==
    /\ pc' = "panicked"
    /\ UNCHANGED ret

\* send: the command's bytes and CR LF are written to the transport; a failed
\* write returns the error to the caller of send, otherwise send goes on to
\* wait_for_response.
Send(c, waiting, onError) ==
    /\ cmd' = c
    /\ \/ /\ pc' = waiting
          /\ UNCHANGED ret
          /\ IF device = "eager"
             THEN \E k \in 0 .. Min(RepliesTo(c), MaxOwed - owed - Len(respQ)) :
                     owed' = owed + k
             ELSE UNCHANGED owed
       \/ /\ Return(onError)
          /\ UNCHANGED owed

\* A wait that takes the newest reply.
Dequeued_Newest ==
    /\ respQ # <<>>
    /\ respQ' = SubSeq(respQ, 1, Len(respQ) - 1)
    /\ got' = Append(got, respQ[Len(respQ)])

\* wait_for_response returns: the oldest reply leaves the Response Queue.
Dequeued ==
    /\ respQ # <<>>
    /\ respQ' = Tail(respQ)
    /\ got' = Append(got, Head(respQ))

OpenCall ==
    /\ Begin(Call("open", 0, 0))
    /\ UNCHANGED <<cmd, buffer>>
    /\ LET index == FirstClosed(sockets) IN
         IF index \in Slots
         THEN /\ sockets' = [sockets EXCEPT ![index].state = "Open"]
              /\ Return(Ret("Ok", index))
         ELSE /\ UNCHANGED sockets
              /\ Return(Ret("NoAvailableSockets", 0))
    /\ UNCHANGED <<notifQ, respQ, owed, device, overflowChecks, boot>>

\* A close that refuses a slot that is already Closed.
CloseCall_OnlyOpen(link_id) ==
    /\ Begin(Call("close", link_id, 0))
    /\ UNCHANGED <<cmd, buffer>>
    /\ IF sockets[link_id].state = "Closed"
       THEN /\ UNCHANGED sockets
            /\ Return(Ret("SocketNotOpen", 0))
       ELSE /\ sockets' = [sockets EXCEPT ![link_id].state = "Closed"]
            /\ Return(Ret("Ok", 0))
    /\ UNCHANGED <<notifQ, respQ, owed, device, overflowChecks, boot>>

CloseCall(link_id) ==
    /\ Begin(Call("close", link_id, 0))
    /\ UNCHANGED <<cmd, buffer>>
    /\ sockets' = [sockets EXCEPT ![link_id].state = "Closed"]
    /\ Return(Ret("Ok", 0))
    /\ UNCHANGED <<notifQ, respQ, owed, device, overflowChecks, boot>>

ConnectCall(link_id) ==
    /\ Begin(Call("connect_tcp", link_id, 0))
    /\ UNCHANGED buffer
    /\ Send(Command("StartConnection", link_id, 0), "connect_wait",
            Ret("UnableToOpen", 0))
    /\ UNCHANGED <<sockets, notifQ, respQ, device, overflowChecks, boot>>

ConnectReply ==
    /\ pc = "connect_wait"
    /\ Dequeued
    /\ IF ExpectConnect(Head(respQ))
       THEN /\ sockets' = [sockets EXCEPT ![op.link].state = "Connected"]
            /\ Return(Ret("Ok", 0))
       ELSE /\ UNCHANGED sockets
            /\ Return(Ret("UnableToOpen", 0))
    /\ UNCHANGED <<notifQ, owed, device, op, cmd, dataSent, buffer,
                   overflowChecks, boot>>

WriteCall(link_id, len) ==
    /\ Begin(Call("write", link_id, len))
    /\ UNCHANGED <<cmd, buffer>>
    /\ pc' = "write_drain"
    /\ UNCHANGED <<sockets, notifQ, respQ, device, owed, ret, overflowChecks, boot>>

ReadCall(link_id, len) ==
    /\ Begin(Call("read", link_id, len))
    /\ UNCHANGED cmd
    /\ buffer' = [i \in 1 .. len |-> 0]
    /\ pc' = "read_drain"
    /\ UNCHANGED <<sockets, notifQ, respQ, device, owed, ret, overflowChecks, boot>>

\* A drain that takes the newest notification first.
Drain_Newest ==
    /\ pc \in {"write_drain", "read_drain"}
    /\ notifQ # <<>>
    /\ notifQ' = SubSeq(notifQ, 1, Len(notifQ) - 1)
    /\ LET f == ProcessNotification(sockets, notifQ[Len(notifQ)],
                                    overflowChecks) IN
         IF f.panic
         THEN Panic /\ UNCHANGED sockets
         ELSE sockets' = f.sockets /\ UNCHANGED <<pc, ret>>
    /\ UNCHANGED <<respQ, owed, device, op, cmd, got, dataSent, buffer,
                   overflowChecks, boot>>

\* process_notifications dequeued a notification and folds it.
Drain ==
    /\ pc \in {"write_drain", "read_drain"}
    /\ notifQ # <<>>
    /\ notifQ' = Tail(notifQ)
    /\ LET f == ProcessNotification(sockets, Head(notifQ), overflowChecks) IN
         IF f.panic
         THEN Panic /\ UNCHANGED sockets
         ELSE sockets' = f.sockets /\ UNCHANGED <<pc, ret>>
    /\ UNCHANGED <<respQ, owed, device, op, cmd, got, dataSent, buffer,
                   overflowChecks, boot>>

\* write: process_notifications found the queue empty; the Send command goes out.
WriteSend ==
    /\ pc = "write_drain"
    /\ notifQ = <<>>
    /\ Send(Command("Send", op.link, op.len), "write_ok", Ret("WriteError", 0))
    /\ UNCHANGED <<sockets, notifQ, respQ, device, op, got, dataSent, buffer,
                   overflowChecks, boot>>

\* write: the reply to the Send command.
WriteOk ==
    /\ pc = "write_ok"
    /\ Dequeued
    /\ IF ExpectOk(Head(respQ))
       THEN pc' = "write_ready" /\ UNCHANGED ret
       ELSE Return(Ret("WriteError", 0))
    /\ UNCHANGED <<sockets, notifQ, owed, device, op, cmd, dataSent, buffer,
                   overflowChecks, boot>>

\* write: the second reply; on ReadyForData the buffer is written byte by
\* byte, and a failed transport write returns at once.
WriteReady ==
    /\ pc = "write_ready"
    /\ Dequeued
    /\ IF ExpectReadyForData(Head(respQ))
       THEN \E n \in 0 .. op.len :
               /\ dataSent' = n
               /\ IF n = op.len
                  THEN pc' = "write_sendok" /\ UNCHANGED ret
                  ELSE Return(Ret("WriteError", 0))
       ELSE /\ UNCHANGED dataSent
            /\ Return(Ret("WriteError", 0))
    /\ UNCHANGED <<sockets, notifQ, owed, device, op, cmd, buffer,
                   overflowChecks, boot>>

\* write: the third reply.
WriteSendOk ==
    /\ pc = "write_sendok"
    /\ Dequeued
    /\ IF ExpectSendOk(Head(respQ))
       THEN Return(Ret("Ok", Head(respQ).len))
       ELSE Return(Ret("WriteError", 0))
    /\ UNCHANGED <<sockets, notifQ, owed, device, op, cmd, dataSent, buffer,
                   overflowChecks, boot>>

\* A read that closes a HalfClosed slot once it finds it drained.
ReadCheck_ClosesDrained ==
    /\ pc = "read_drain"
    /\ notifQ = <<>>
    /\ LET pre == ReadPrecondition(sockets[op.link]) IN
         IF pre = "go"
         THEN /\ Send(Command("Receive", op.link, Len(buffer)), "read_wait",
                      Ret("ReadError", 0))
              /\ UNCHANGED sockets
         ELSE /\ Return(Ret(pre, 0))
              /\ sockets' = IF sockets[op.link].state = "HalfClosed"
                            THEN [sockets EXCEPT ![op.link].state = "Closed"]
                            ELSE sockets
              /\ UNCHANGED <<cmd, owed>>
    /\ UNCHANGED <<notifQ, respQ, device, op, got, dataSent, buffer,
                   overflowChecks, boot>>

\* read: process_notifications found the queue empty; the preconditions are
\* checked and the Receive command goes out.
ReadCheck ==
    /\ pc = "read_drain"
    /\ notifQ = <<>>
    /\ LET pre == ReadPrecondition(sockets[op.link]) IN
         IF pre = "go"
         THEN Send(Command("Receive", op.link, Len(buffer)), "read_wait",
                   Ret("ReadError", 0))
         ELSE /\ Return(Ret(pre, 0))
              /\ UNCHANGED <<cmd, owed>>
    /\ UNCHANGED <<sockets, notifQ, respQ, device, op, got, dataSent, buffer,
                   overflowChecks, boot>>

\* read: the reply to the Receive command.
ReadReply ==
    /\ pc = "read_wait"
    /\ Dequeued
    /\ LET r == Head(respQ)
           left == sockets[op.link].available - r.len
       IN IF ~ExpectDataReceived(r)
          THEN /\ Return(Ret("ReadError", 0))
               /\ UNCHANGED <<sockets, buffer>>
          ELSE IF r.len > Len(buffer)
          THEN Panic /\ UNCHANGED <<sockets, buffer>>
          ELSE /\ buffer' = CopyInto(buffer, r.len)
               /\ IF Overflows(left) /\ overflowChecks
                  THEN Panic /\ UNCHANGED sockets
                  ELSE /\ sockets' = [sockets EXCEPT
                                        ![op.link].available = Wrap(left)]
                       /\ Return(Ret("Ok", r.len))
    /\ UNCHANGED <<notifQ, owed, device, op, cmd, dataSent, overflowChecks, boot>>

----------------------------------------------------------------------------
(* The Ingress and the device behind it *)

\* Bytes announced for slot l and not folded yet.
Announced(l) ==
    LET idx == {i \in 1 .. Len(notifQ) :
                  notifQ[i].type = "DataAvailable" /\ notifQ[i].link = l}
        Sum[S \in SUBSET idx] ==
            IF S = {} THEN 0
            ELSE LET i == CHOOSE j \in S : TRUE IN notifQ[i].len + Sum[S \ {i}]
    IN Sum[idx]

\* The Ingress enqueues an unsolicited notification.  The Adapter looks at
\* the Notification Queue only in process_notifications, so a notification
\* that arrives while it waits for a reply is one that arrives right after
\* the call: the arrivals are taken between calls and during the drain.
IngressNotify(n) ==
    /\ pc \in {"idle", "write_drain", "read_drain"}
    /\ Len(notifQ) < Min(NotifQueueCap, MaxPending)
    /\ (n.type = "DataAvailable" /\ n.link \in Slots) =>
          Wrap(sockets[n.link].available + Announced(n.link) + n.len) <= MaxLen
    /\ notifQ' = Append(notifQ, n)
    /\ UNCHANGED <<sockets, respQ, device, owed, pc, op, ret, cmd, got,
                   dataSent, buffer, overflowChecks, boot>>

Waiting ==
    pc \in {"connect_wait", "write_ok", "write_ready", "write_sendok", "read_wait"}

\* Bound of the model: data is handed out only for a byte count within the
\* model's range, so that a count that wrapped is not counted down the whole
\* width of usize.
InRange(r) ==
    (r.type = "DataReceived" /\ pc = "read_wait") =>
        sockets[op.link].available <= MaxLen

\* The Ingress enqueues a reply of the device.
IngressReply(r) ==
    /\ pc \notin {"panicked", "returned"}
    /\ Len(respQ) < RespQueueCap
    /\ IF device = "eager"
       THEN owed > 0 /\ owed' = owed - 1
       ELSE Waiting /\ respQ = <<>> /\ UNCHANGED owed
    /\ InRange(r)
    /\ respQ' = Append(respQ, r)
    /\ UNCHANGED <<sockets, notifQ, device, pc, op, ret, cmd, got, dataSent,
                   buffer, overflowChecks, boot>>

----------------------------------------------------------------------------
Next ==
    \/ OpenCall
    \/ \E l \in Links : CloseCall(l)
    \/ \E l \in Links : ConnectCall(l)
    \/ ConnectReply
    \/ \E l \in Links, n \in BufLens : WriteCall(l, n)
    \/ \E l \in Links, n \in BufLens : ReadCall(l, n)
    \/ Drain
    \/ WriteSend
    \/ WriteOk
    \/ WriteReady
    \/ WriteSendOk
    \/ ReadCheck
    \/ ReadReply
    \/ Resume
    \/ \E n \in Notifications : IngressNotify(n)
    \/ \E r \in Replies : IngressReply(r)

Spec == Init /\ [][Next]_vars

\* The command/reply exchange alone, against a device that sends every reply
\* of an exchange whether or not the Adapter still waits for it.
InitEager ==
    /\ boot = Booted
    /\ sockets = initialize_sockets
    /\ notifQ = <<>>
    /\ respQ = <<>>
    /\ device = "eager"
    /\ owed = 0
    /\ pc = "idle"
    /\ op = NoCall
    /\ ret = NoRet
    /\ cmd = NoCmd
    /\ got = <<>>
    /\ dataSent = 0
    /\ buffer = <<>>
    /\ overflowChecks \in BOOLEAN

NextEager ==
    \/ OpenCall
    \/ \E l \in Links : CloseCall(l)
    \/ \E l \in Links : ConnectCall(l)
    \/ ConnectReply
    \/ \E l \in Links, n \in BufLens : WriteCall(l, n)
    \/ WriteSend
    \/ WriteOk
    \/ WriteReady
    \/ WriteSendOk
    \/ Resume
    \/ \E r \in Replies : IngressReply(r)

SpecEager == InitEager /\ [][NextEager]_vars

\* wait_for_response polls without pause: once the Response Queue holds a
\* reply, the next poll takes it.
Polling == ConnectReply \/ WriteOk \/ WriteReady \/ WriteSendOk

SpecEagerFair == SpecEager /\ WF_vars(Polling)

----------------------------------------------------------------------------
(* Properties *)

Returned(name) == pc = "returned" /\ op.name = name

ReplyOk == Resp("Ok", 0, 0)
ReplyReady == Resp("ReadyForData", 0, 0)

\* The replies of a successful write: Ok, ReadyForData, SendOk(n).
ExactWriteReplies ==
    /\ Len(got) = 3
    /\ got[1] = ReplyOk
    /\ got[2] = ReplyReady
    /\ got[3].type = "SendOk"

\* The last reply dequeued is a wrong variant at the first, second or third
\* position of the exchange.
WrongVariant ==
    \/ Len(got) = 1 /\ got[1] # ReplyOk
    \/ Len(got) = 2 /\ got[1] = ReplyOk /\ got[2] # ReplyReady
    \/ Len(got) = 3 /\ got[1] = ReplyOk /\ got[2] = ReplyReady
          /\ got[3].type # "SendOk"

\* C1, as stated: write returns Ok(n) exactly for the replies Ok, ReadyForData,
\* SendOk(n); for a wrong variant at the first, second or third position it
\* returns WriteError and no byte of the buffer has been written to the
\* transport.
C1_WriteAtomic ==
    Returned("write") =>
        /\ ret.kind = "Ok" <=> ExactWriteReplies
        /\ ExactWriteReplies => ret.val = got[3].len
        /\ WrongVariant => (ret = Ret("WriteError", 0) /\ dataSent = 0)

\* C1, amended: write returns Ok(n) exactly for the replies Ok, ReadyForData,
\* SendOk(n) and WriteError otherwise; bytes of the buffer are written only
\* after the replies Ok, ReadyForData, and a third reply is dequeued only
\* after the whole buffer was written, so a wrong third reply gives
\* WriteError with the buffer already on the transport.
C1_WriteReplies ==
    Returned("write") =>
        /\ IF ExactWriteReplies
           THEN ret = Ret("Ok", got[3].len)
           ELSE ret = Ret("WriteError", 0)
        /\ dataSent > 0 => (Len(got) >= 2 /\ got[1] = ReplyOk /\ got[2] = ReplyReady)
        /\ Len(got) = 3 => dataSent = op.len
        /\ Len(got) <= 3

C1_Witness ==
    /\ Returned("write")
    /\ Len(got) = 3
    /\ got[3].type # "SendOk"
    /\ ret = Ret("WriteError", 0)
    /\ dataSent = op.len

\* The step in which process_notifications folds a Closed notification for
\* a slot of the table.
FoldsClosed(l) ==
    /\ pc \in {"write_drain", "read_drain"}
    /\ notifQ # <<>>
    /\ Head(notifQ) = Resp("Closed", l, 0)
    /\ notifQ' = Tail(notifQ)

\* C3: folding Closed(link_id) takes the slot from Open or Connected to
\* HalfClosed, from HalfClosed to Closed and leaves a Closed slot Closed; its
\* available count and every other slot are unchanged.
C3_CloseTable ==
    [][\A l \in Slots : FoldsClosed(l) =>
          /\ sockets[l].state \in {"Open", "Connected"} =>
                sockets'[l].state = "HalfClosed"
          /\ sockets[l].state = "HalfClosed" => sockets'[l].state = "Closed"
          /\ sockets[l].state = "Closed" => sockets'[l].state = "Closed"
          /\ sockets'[l].available = sockets[l].available
          /\ \A i \in Slots \ {l} : sockets'[i] = sockets[i]
          /\ pc' = pc]_vars

\* A slot is HalfClosed only after a Closed notification was folded for it, and
\* a second one is waiting.
C3_Witness ==
    \E l \in Links :
        /\ sockets[l].state = "HalfClosed"
        /\ pc \in {"write_drain", "read_drain"}
        /\ notifQ # <<>>
        /\ Head(notifQ) = Resp("Closed", l, 0)

\* C4: open returns the lowest index of a Closed slot and marks exactly that
\* slot Open; when no slot is Closed it fails with NoAvailableSockets and
\* changes nothing.
C4_OpenLowestClosed ==
    [][(pc = "idle" /\ op'.name = "open") =>
          /\ pc' = "returned"
          /\ IF \E i \in Slots : sockets[i].state = "Closed"
             THEN /\ ret'.kind = "Ok"
                  /\ ret'.val \in Slots
                  /\ sockets[ret'.val].state = "Closed"
                  /\ \A j \in Slots : j < ret'.val => sockets[j].state # "Closed"
                  /\ sockets' = [sockets EXCEPT ![ret'.val].state = "Open"]
             ELSE /\ ret' = Ret("NoAvailableSockets", 0)
                  /\ sockets' = sockets]_vars

\* The fifth open in a row returned index 4; every slot is taken.
C4_Witness ==
    /\ Returned("open")
    /\ ret = Ret("Ok", NumSockets - 1)
    /\ \A i \in Slots : sockets[i].state = "Open"

\* C2: a read that succeeds returns the len of its DataReceived reply, has
\* copied the first len bytes of the reply into the buffer, decreases the
\* available count of its slot by exactly len (to 0 when the count was len)
\* and changes nothing else in the table.
C2_ReadRoundTrip ==
    [][(pc = "read_wait" /\ pc' = "returned" /\ ret'.kind = "Ok") =>
          LET l == op.link
              n == ret'.val
          IN /\ Head(respQ) = Resp("DataReceived", 0, n)
             /\ \A i \in 1 .. n : buffer'[i] = Inbound[i]
             /\ sockets'[l].available = sockets[l].available - n
             /\ sockets'[l].state = sockets[l].state
             /\ \A i \in Slots \ {l} : sockets'[i] = sockets[i]]_vars

\* C5: connect_tcp hands a StartConnection command to send and touches the
\* table only when the reply is a Connect, setting its slot to Connected and
\* returning Ok; for any other reply, or when the command cannot be written,
\* it returns UnableToOpen and the table is as it was before the call.
C5_ConnectTcp ==
    [][/\ (pc = "idle" /\ op'.name = "connect_tcp") =>
             /\ cmd' = Command("StartConnection", op'.link, 0)
             /\ sockets' = sockets
             /\ pc' \in {"connect_wait", "returned"}
             /\ pc' = "returned" => ret' = Ret("UnableToOpen", 0)
       /\ (pc = "connect_wait" /\ pc' # "returned") =>
             (sockets' = sockets /\ pc' = pc)
       /\ (pc = "connect_wait" /\ pc' = "returned") =>
             IF Head(respQ).type = "Connect"
             THEN /\ sockets' = [sockets EXCEPT ![op.link].state = "Connected"]
                  /\ ret' = Ret("Ok", 0)
             ELSE /\ sockets' = sockets
                  /\ ret' = Ret("UnableToOpen", 0)]_vars

\* connect_tcp(1, addr) was answered by a Connect reply and slot 1 is Connected.
C5_Witness ==
    /\ Returned("connect_tcp")
    /\ op.link = 1
    /\ got = <<Resp("Connect", 0, 0)>>
    /\ ret = Ret("Ok", 0)
    /\ sockets[1].state = "Connected"

\* A read has folded the pending notifications and checked its preconditions,
\* and no reply has changed the table since.
ReadChecked ==
    /\ op.name = "read"
    /\ pc \in {"read_wait", "returned"}
    /\ got = <<>>

\* C6: for a slot that is HalfClosed once the notifications are folded, read
\* fails with SocketNotOpen and sends no command when available = 0, and
\* hands a Receive command for the buffer's capacity to send when
\* available > 0.
C6_HalfClosedRead ==
    (ReadChecked /\ sockets[op.link].state = "HalfClosed") =>
        IF sockets[op.link].available = 0
        THEN pc = "returned" /\ ret = Ret("SocketNotOpen", 0) /\ cmd = NoCmd
        ELSE cmd = Command("Receive", op.link, op.len) /\ Len(buffer) = op.len

C6_Witness ==
    /\ ReadChecked
    /\ pc = "read_wait"
    /\ sockets[op.link].state = "HalfClosed"
    /\ sockets[op.link].available > 0
    /\ cmd = Command("Receive", op.link, op.len)

\* C7: for a slot that is Closed once the notifications are folded, read fails
\* with SocketNotOpen whatever its available count, and sends no command.
C7_ClosedRead ==
    (ReadChecked /\ sockets[op.link].state = "Closed") =>
        (pc = "returned" /\ ret = Ret("SocketNotOpen", 0) /\ cmd = NoCmd)

C7_Witness ==
    /\ ReadChecked
    /\ sockets[op.link].state = "Closed"
    /\ sockets[op.link].available > 0
    /\ ret = Ret("SocketNotOpen", 0)

\* C8: read returns WouldBlock exactly when, the notifications folded, its
\* slot is Open or Connected with available = 0; then no command was handed
\* to send and no reply dequeued.  No other call returns WouldBlock.
C8_WouldBlock ==
    /\ ReadChecked =>
          (ret.kind = "WouldBlock" <=>
              (/\ pc = "returned"
               /\ sockets[op.link].state \in {"Open", "Connected"}
               /\ sockets[op.link].available = 0))
    /\ ret.kind = "WouldBlock" =>
          (Returned("read") /\ cmd = NoCmd /\ got = <<>>)

C8_Witness ==
    /\ Returned("read")
    /\ ret = Ret("WouldBlock", 0)
    /\ sockets[op.link].state = "Connected"

\* C9: a slot has available > 0 only while it is Open, Connected or
\* HalfClosed; a Closed slot has available = 0.
C9_AvailableOnlyWhileOpen ==
    \A i \in Slots :
        sockets[i].available > 0 =>
            sockets[i].state \in {"Open", "Connected", "HalfClosed"}

\* C10: whenever a command is handed to send, the Response Queue is empty and
\* the device owes no reply to an earlier command.
C10_SingleInFlight ==
    [][(cmd' # cmd /\ cmd'.type # "none") => (respQ = <<>> /\ owed = 0)]_vars

\* C11: no call reaches a panic-level condition: not an index outside the
\* socket table, not an overflow of a slot's available count, not a copy past
\* the end of the caller's buffer.
C11_NoPanic == pc # "panicked"

\* C12: close(link_id) returns Ok at once, leaves its slot Closed whatever its
\* state was, hands no command to send, writes no byte of data, takes nothing
\* from either queue and leaves every other slot as it was.
C12_CloseFrame ==
    [][(pc = "idle" /\ op'.name = "close") =>
          /\ pc' = "returned"
          /\ ret' = Ret("Ok", 0)
          /\ sockets'[op'.link].state = "Closed"
          /\ \A i \in Slots \ {op'.link} : sockets'[i] = sockets[i]
          /\ cmd' = cmd
          /\ dataSent' = dataSent
          /\ notifQ' = notifQ
          /\ respQ' = respQ]_vars

\* close returned for a slot that had been opened and had bytes announced,
\* with a notification still queued and the other slot HalfClosed.
C12_Witness ==
    /\ Returned("close")
    /\ ret = Ret("Ok", 0)
    /\ sockets[op.link] = Socket("Closed", MaxLen)
    /\ notifQ # <<>>
    /\ \E i \in Links \ {op.link} : sockets[i].state = "HalfClosed"

Draining == pc \in {"write_drain", "read_drain"}

\* C15: while a read or write drains, a step of the Adapter is always at hand
\* (process_notifications never blocks); the Notification Queue changes only
\* by the Ingress appending at its tail or by the Adapter taking its head,
\* which is folded into the table in that very step; and the call goes on to
\* its preconditions or its command only in a step that finds the queue
\* empty, which is the first step the Adapter takes with the queue empty.  So every notification enqueued before
\* the call began is folded, oldest first, before the check or the command.
C15_DrainFifo ==
    [][Draining =>
          /\ ENABLED (Drain \/ WriteSend \/ ReadCheck)
          /\ notifQ' # notifQ =>
                \/ /\ \E n \in Notifications : notifQ' = Append(notifQ, n)
                   /\ pc' = pc
                   /\ sockets' = sockets
                \/ /\ notifQ # <<>>
                   /\ notifQ' = Tail(notifQ)
                   /\ LET f == ProcessNotification(sockets, Head(notifQ),
                                                   overflowChecks)
                      IN IF f.panic
                         THEN pc' = "panicked" /\ sockets' = sockets
                         ELSE pc' = pc /\ sockets' = f.sockets
          /\ sockets' # sockets => notifQ' # notifQ
          /\ (pc' # pc /\ pc' # "panicked") =>
                (notifQ = <<>> /\ notifQ' = <<>>)
          /\ (notifQ = <<>> /\ notifQ' = <<>> /\ respQ' = respQ) => ~Draining']_vars

\* A write has sent its command after folding two bytes' announcement and a
\* Closed notification for one slot.
C15_Witness ==
    /\ op.name = "write"
    /\ pc = "write_ok"
    /\ notifQ = <<>>
    /\ \E i \in Links : sockets[i] = Socket("HalfClosed", MaxLen)

\* The step in which process_notifications folds a notification.
FoldStep == Draining /\ notifQ # <<>> /\ notifQ' = Tail(notifQ)

\* C19: apart from the folding of notifications, no step of a read or a write
\* changes the table, except the step in which a read succeeds, and that one
\* changes only the available count of the read's own slot.
C19_ReadWriteFrame ==
    [][(op'.name \in {"read", "write"} /\ ~FoldStep) =>
          \/ sockets' = sockets
          \/ /\ op.name = "read"
             /\ pc = "read_wait"
             /\ pc' = "returned"
             /\ ret'.kind = "Ok"
             /\ sockets'[op.link].state = sockets[op.link].state
             /\ \A i \in Slots \ {op.link} : sockets'[i] = sockets[i]]_vars

\* A read got a reply that is no DataReceived and returned ReadError with the
\* bytes announced for its slot still counted.
C19_Witness ==
    /\ Returned("read")
    /\ ret = Ret("ReadError", 0)
    /\ Len(got) = 1
    /\ got[1].type # "DataReceived"
    /\ sockets[op.link].available = MaxLen

\* C20: a slot becomes Connected only from Open, and leaves Closed only by a
\* successful open, which makes it Open.
C20_ConnectedOnlyFromOpen ==
    [][\A i \in Slots :
          /\ (sockets'[i].state = "Connected" /\ sockets[i].state # "Connected")
                => sockets[i].state = "Open"
          /\ (sockets[i].state = "Closed" /\ sockets'[i].state # "Closed")
                => (op'.name = "open" /\ sockets'[i].state = "Open")]_vars

\* The bytes initialize has read end with the banner.
BannerSeen == EndsWith(SubSeq(boot.buffer, 1, boot.pos), READY)

\* The bytes wait_for_ok has read end with the acknowledgement.
OkSeen == EndsWith(SubSeq(boot.buf, 1, boot.buf_pos), OK)

\* C13: the handshake ends in one of two ways, whatever bytes and failures
\* come: with the pair, after the banner and the three acknowledgements were
\* matched, or with UnableToInitialize.
C13_TwoOutcomes ==
    /\ boot.step \in {"enable", "reset", "banner", "echo", "echo_wait", "mux",
                      "mux_wait", "recv", "recv_wait", "build", "built",
                      "failed"}
    /\ boot.step = "built" => (BannerSeen /\ OkSeen /\ boot.tx = Commands)

\* C14: the Adapter that initialize returns has its five slots Closed with
\* available = 0.
C14_FreshAdapter ==
    boot.step = "built" =>
        /\ DOMAIN sockets = Slots
        /\ \A i \in Slots : sockets[i].state = "Closed" /\ sockets[i].available = 0

\* The pair was built after a handshake with other bytes before the banner
\* and failed reads.
C14_Witness ==
    /\ boot.step = "built"
    /\ pc = "idle"
    /\ boot.pos > Len(READY)
    /\ boot.counter > 0

\* C17: the three commands are written in the order ATE0, AT+CIPMUX=1,
\* AT+CIPRECVMODE=1; the first when the bytes read end with the banner, each
\* later one when the bytes read since the previous command end with OK; the
\* pair is built when the third acknowledgement was read and the three
\* commands written; and no read takes place before both pins are high.
C17_CommandOrder ==
    [][/\ boot'.tx # boot.tx =>
             /\ Len(boot.tx) < Len(Commands)
             /\ boot'.tx = Append(boot.tx, Commands[Len(boot.tx) + 1])
             /\ BannerSeen
             /\ Len(boot.tx) > 0 => OkSeen
       /\ (boot'.step = "built" /\ boot.step # "built") =>
             (boot.tx = Commands /\ OkSeen /\ BannerSeen)
       /\ (boot'.result # boot.result \/ boot'.pos # boot.pos
              \/ boot'.buf_pos # boot.buf_pos) =>
             (boot.enable_pin /\ boot.reset_pin)]_vars

\* The third command is out, after other bytes before the banner and before
\* the first acknowledgement.
C17_Witness ==
    /\ boot.step = "recv_wait"
    /\ boot.tx = Commands
    /\ boot.pos > Len(READY)
    /\ boot.buf_pos = 0

\* C18, as stated: in the banner loop a would-block changes nothing, every
\* other failed read that leaves the loop running adds one to the counter, and
\* the handshake has failed as soon as more than FailureBudget failures were
\* counted.
C18_FailsPastBudget ==
    [][(boot.step = "banner" /\ boot' # boot) =>
          /\ boot'.result = RxWouldBlock =>
                [boot' EXCEPT !.result = boot.result] = boot
          /\ (boot'.result = RxErr /\ boot'.step = "banner") =>
                boot'.counter = boot.counter + 1
          /\ boot'.counter > FailureBudget => boot'.step = "failed"]_vars

\* C18, amended: in the banner loop a would-block changes nothing and a byte
\* leaves the counter alone; a failed read that finds the counter at most
\* FailureBudget adds one to it and the loop goes on; a failed read that
\* finds it above FailureBudget, the (FailureBudget + 2)nd, ends the
\* handshake with UnableToInitialize.
C18_FailureCounter ==
    [][(boot.step = "banner" /\ boot' # boot) =>
          /\ boot'.result = RxWouldBlock =>
                [boot' EXCEPT !.result = boot.result] = boot
          /\ boot'.result.kind = "Ok" => boot'.counter = boot.counter
          /\ boot'.result = RxErr =>
                IF boot.counter <= FailureBudget
                THEN boot' = [boot EXCEPT !.result = RxErr,
                                          !.counter = boot.counter + 1]
                ELSE boot' = [boot EXCEPT !.result = RxErr, !.step = "failed"]
          /\ boot.counter <= FailureBudget + 1]_vars

\* The handshake failed on a failed read, with bytes read before it and the
\* counter one above the threshold.
C18_Witness ==
    /\ boot.step = "failed"
    /\ boot.result = RxErr
    /\ boot.counter = FailureBudget + 1
    /\ boot.pos > 0
    /\ boot.tx = <<>>

\* C16: while send waits, the Adapter moves only by taking the oldest reply
\* off the Response Queue, exactly that one; with the queue empty it stays
\* where it is and returns nothing; once the queue holds a reply the wait
\* ends with it; and no call ever returns a timeout.
C16_SendReturns ==
    /\ [][Waiting =>
             /\ got' # got =>
                   /\ respQ # <<>>
                   /\ got' = Append(got, Head(respQ))
                   /\ respQ' = Tail(respQ)
             /\ respQ = <<>> => (pc' = pc /\ ret' = ret /\ got' = got)
             /\ pc' # pc => got' # got]_vars
    /\ \A n \in 0 .. 2 :
          (Waiting /\ respQ # <<>> /\ Len(got) = n) ~> (Len(got) = n + 1)
    /\ [](ret.kind # "Timeout")

\* A wait has ended with the older of two different replies; the newer one is
\* still queued.
C16_Witness ==
    /\ Len(got) >= 1
    /\ respQ # <<>>
    /\ got[Len(got)] # respQ[1]
    /\ cmd.type # "none"

====
